---- MODULE Spec2Model ----
(***************************************************************************)
(* State-machine model of src/core/spi_controller.py: the SPIController    *)
(* session (connect / close), JEDEC chip identification and the chunked    *)
(* firmware read with per-chunk retries.                                   *)
(*                                                                         *)
(* Byte strings read from the flash are modelled as runs: the record       *)
(* [addr |-> a, n |-> k] stands for the k bytes the chip answers for a     *)
(* fast-read command carrying bus address a.  A bytearray is a sequence of *)
(* such runs, and its len() is the sum of the run sizes.                   *)
(*                                                                         *)
(* Optional values (None or a value) are sequences of length 0 or 1.       *)
(*                                                                         *)
(* logger.progress(...) is taken to be a context manager that yields the   *)
(* progress reporter whose update() receives the notification.            *)
(***************************************************************************)
EXTENDS Integers, Sequences, FiniteSets, TLC

VARIABLES
    spi,            \* self.spi: "none" | "unopened" | "open" | "closed"
    _is_connected,  \* self._is_connected
    chip_info,      \* self.chip_info: <<>> or <<ChipInfo>>
    pc,             \* position of the single caller
    arg_start,      \* read_firmware argument start_address
    arg_length,     \* read_firmware argument length: <<>> (None) or <<n>>
    length,         \* read_firmware local length
    address,        \* read_firmware local address
    remaining,      \* read_firmware local remaining
    data,           \* read_firmware local data (bytearray, as runs)
    chunk_size,     \* read_firmware local chunk_size
    attempt,        \* _read_chunk loop variable attempt
    progress,       \* notifications received by progress.update, in order
    ret,            \* value returned by the running operation: <<>> (None) or <<v>>
    raised,         \* exception propagated to the caller: "none" or its type
    logged,         \* logger.error records of the running operation
    nTx,            \* history: spi.xfer calls issued by the running read
    lastTx,         \* history: the latest chunk transaction, <<>> or <<[cmd, n]>>
    faults,         \* history: failed chunk attempts of the running read
    maxFails,       \* history: most failed attempts any one chunk has had
    id_response,    \* history: outcome of _detect_chip's identity exchange
    selftest,       \* history: outcome of _test_connection's identity exchange
    closeCalls      \* history: spi.close() calls on the current handle

vars == <<spi, _is_connected, chip_info, pc, arg_start, arg_length, length,
          address, remaining, data, chunk_size, attempt, progress, ret,
          raised, logged, nTx, lastTx, faults, maxFails, id_response,
          selftest, closeCalls>>

sessionVars == <<spi, _is_connected, chip_info, closeCalls>>
readVars == <<arg_start, arg_length, length, address, remaining, data,
              chunk_size, attempt, progress, nTx, lastTx, faults, maxFails>>

----------------------------------------------------------------------------
(* Bounds of the exploration *)

\* explicit read lengths reach MaxChunks full chunks plus one byte
MaxChunks == 2
\* the transport fails at most MaxFaults chunk attempts within one read
MaxFaults == 3

----------------------------------------------------------------------------
(* Program constants *)

CMD_FAST_READ == 11
_buffer_size == 4096
RETRIES == 3
ID_LEN == 3

None == <<>>
Some(v) == <<v>>

----------------------------------------------------------------------------
(* Integer helpers with Python's semantics on non-negative ints *)

Pow2(k) == 2 ^ k
Shl(x, k) == x * Pow2(k)
Shr(x, k) == x \div Pow2(k)
And255(x) == x % 256

RECURSIVE BitOr(_, _)
BitOr(a, b) ==
    IF a = 0 THEN b
    ELSE IF b = 0 THEN a
    ELSE (IF (a % 2 = 1) \/ (b % 2 = 1) THEN 1 ELSE 0)
         + 2 * BitOr(a \div 2, b \div 2)

Min(a, b) == IF a <= b THEN a ELSE b
Max(a, b) == IF a >= b THEN a ELSE b

\* len() of a bytearray held as runs: the sum of the run sizes
RECURSIVE SumRuns(_, _, _)
SumRuns(s, lo, hi) ==
    IF lo > hi THEN 0
    ELSE IF lo = hi THEN s[lo].n
    ELSE LET mid == (lo + hi) \div 2
         IN  SumRuns(s, lo, mid) + SumRuns(s, mid + 1, hi)

LenBytes(s) == SumRuns(s, 1, Len(s))

----------------------------------------------------------------------------
(* Chip identification *)

ChipInfo(m, d, size_mb, page_size, sector_size) ==
    [manufacturer_id |-> m, device_id |-> d, size_mb |-> size_mb,
     page_size |-> page_size, sector_size |-> sector_size]

chip_sizes ==
    (15679510 :> <<2, 256, 4096>>) @@     \* 0xEF4016  W25Q16
    (15679511 :> <<4, 256, 4096>>) @@     \* 0xEF4017  W25Q32
    (15679512 :> <<8, 256, 4096>>) @@     \* 0xEF4018  W25Q64
    (15679513 :> <<16, 256, 4096>>)       \* 0xEF4019  W25Q128

\* a key built with the manufacturer byte shifted by 8 instead of 16
ChipId_narrowShift(response) ==
    BitOr(Shl(response[1], 8), BitOr(Shl(response[2], 8), response[3]))

\* the 24-bit key _detect_chip builds from the three identity bytes
ChipId(response) ==
    LET manufacturer_id == response[1]
        device_id == BitOr(Shl(response[2], 8), response[3])
    IN  BitOr(Shl(manufacturer_id, 16), device_id)

\* _detect_chip on the outcome of the identity exchange: r.exc says the
\* transport raised, r.bytes is what readbytes(3) returned otherwise.
\* Indexing a response shorter than three bytes raises IndexError, which
\* the same except clause turns into None.
_detect_chip(r) ==
    IF r.exc \/ Len(r.bytes) < 3 THEN None
    ELSE LET manufacturer_id == r.bytes[1]
             device_id == BitOr(Shl(r.bytes[2], 8), r.bytes[3])
             chip_id == ChipId(r.bytes)
         IN  IF chip_id \in DOMAIN chip_sizes
             THEN Some(ChipInfo(manufacturer_id, device_id,
                                chip_sizes[chip_id][1], chip_sizes[chip_id][2],
                                chip_sizes[chip_id][3]))
             ELSE None

\* _test_connection on the outcome of its identity exchange
_test_connection(r) == IF r.exc THEN FALSE ELSE Len(r.bytes) = ID_LEN

----------------------------------------------------------------------------
(* Session guard *)

\* _verify_connection testing the handle only
NotConnected_handleOnly == spi = "none"

\* the condition under which _verify_connection raises ConnectionError
NotConnected == (~_is_connected) \/ (spi = "none")

----------------------------------------------------------------------------
(* Chunk transactions *)

\* a command with the address bytes least-significant first
FastReadCmd_littleEndian(a) ==
    <<CMD_FAST_READ, And255(a), And255(Shr(a, 8)), And255(Shr(a, 16)), 0>>

\* the command _read_chunk sends for an address
FastReadCmd(a) ==
    <<CMD_FAST_READ, And255(Shr(a, 16)), And255(Shr(a, 8)), And255(a), 0>>

\* the address a fast-read command puts on the bus
BusAddress(cmd) == cmd[2] * 65536 + cmd[3] * 256 + cmd[4]

\* the k bytes the chip answers for a command
Response(cmd, k) == [addr |-> BusAddress(cmd), n |-> k]

\* what the transport may do with one chunk transaction on the current
\* handle: raise, or answer with a run of the requested, a smaller or a
\* larger size.  A handle that is not open only raises.
Failing(cmd, k) ==
    {[exc |-> TRUE, run |-> Response(cmd, 0)],
     [exc |-> FALSE, run |-> Response(cmd, k - 1)],
     [exc |-> FALSE, run |-> Response(cmd, k + 1)]}

TransportOutcomes(cmd, k) ==
    IF spi # "open"
    THEN {[exc |-> TRUE, run |-> Response(cmd, 0)]}
    ELSE {[exc |-> FALSE, run |-> Response(cmd, k)]}
         \cup (IF faults < MaxFaults THEN Failing(cmd, k) ELSE {})

\* what the transport may do with an identity exchange
IdResponses == {<<239, 64, 22>>, <<0, 0, 0>>, <<239, 64>>}
IdOutcomes ==
    {[exc |-> TRUE, bytes |-> <<>>]}
    \cup {[exc |-> FALSE, bytes |-> b] : b \in IdResponses}

\* read requests explored
StartAddresses == {0, Pow2(24) - _buffer_size}
Lengths ==
    {None, Some(0), Some(1), Some(_buffer_size - 1)}
    \cup {Some(k * _buffer_size) : k \in 1..MaxChunks}
    \cup {Some(k * _buffer_size + 1) : k \in 1..MaxChunks}

----------------------------------------------------------------------------
(* Initial state: __init__ *)

Init ==
    /\ spi = "none"
    /\ _is_connected = FALSE
    /\ chip_info = None
    /\ pc = "idle"
    /\ arg_start = 0
    /\ arg_length = None
    /\ length = 0
    /\ address = 0
    /\ remaining = 0
    /\ data = <<>>
    /\ chunk_size = 0
    /\ attempt = 0
    /\ progress = <<>>
    /\ ret = None
    /\ raised = "none"
    /\ logged = <<>>
    /\ nTx = 0
    /\ lastTx = None
    /\ faults = 0
    /\ maxFails = 0
    /\ id_response = None
    /\ selftest = None
    /\ closeCalls = 0

----------------------------------------------------------------------------
(* connect *)

\* a connect that reports success only for an identified chip
ConnectResult_needsChip(chip) == chip # None

\* lines 90-93: what connect returns once the self-test has passed and
\* the identification result is cached
ConnectResult(chip) == TRUE

\* ctor: import spidev and SpiDev() succeeded; opened: spi.open() succeeded;
\* r1, r2: the identity exchanges of _test_connection and _detect_chip
Connect(ctor, opened, r1, r2) ==
    /\ pc = "idle"
    /\ pc' = "connect_ret"
    /\ raised' = "none"
    /\ IF ~ctor
       THEN /\ ret' = Some(FALSE)
            /\ logged' = <<[exc |-> "Exception", address |-> None]>>
            /\ UNCHANGED <<sessionVars, id_response, selftest>>
       ELSE IF ~opened
       THEN /\ spi' = "unopened"
            /\ closeCalls' = 0
            /\ ret' = Some(FALSE)
            /\ logged' = <<[exc |-> "Exception", address |-> None]>>
            /\ UNCHANGED <<_is_connected, chip_info, id_response, selftest>>
       ELSE IF _test_connection(r1)
       THEN /\ spi' = "open"
            /\ closeCalls' = 0
            /\ _is_connected' = TRUE
            /\ chip_info' = _detect_chip(r2)
            /\ id_response' = Some(r2)
            /\ selftest' = Some(r1)
            /\ ret' = Some(ConnectResult(chip_info'))
            /\ logged' = <<>>
       ELSE /\ spi' = "open"
            /\ closeCalls' = 0
            /\ selftest' = Some(r1)
            /\ ret' = Some(FALSE)
            /\ logged' = <<[exc |-> "ConnectionTest", address |-> None]>>
            /\ UNCHANGED <<_is_connected, chip_info, id_response>>
    /\ UNCHANGED readVars

----------------------------------------------------------------------------
(* close *)

\* closed: spi.close() returned (it raised otherwise)
Close(closed) ==
    /\ pc = "idle"
    /\ pc' = "close_ret"
    /\ ret' = None
    /\ logged' = <<>>
    /\ IF spi # "none"
       THEN /\ closeCalls' = Min(closeCalls + 1, 2)
            /\ IF closed
               THEN /\ spi' = "closed"
                    /\ _is_connected' = FALSE
                    /\ raised' = "none"
               ELSE /\ raised' = "Exception"
                    /\ UNCHANGED <<spi, _is_connected>>
       ELSE /\ raised' = "none"
            /\ UNCHANGED <<spi, _is_connected, closeCalls>>
    /\ UNCHANGED <<chip_info, id_response, selftest>>
    /\ UNCHANGED readVars

----------------------------------------------------------------------------
(* read_firmware *)

\* a default length that takes a megabyte for 1000 * 1000 bytes
EffectiveLength_decimalMB(len, chip) ==
    IF (len = None \/ len = Some(0)) /\ chip # None
    THEN Some(chip[1].size_mb * 1000 * 1000)
    ELSE IF (len = None \/ len = Some(0))
    THEN None
    ELSE len

\* the length read_firmware works with: the argument, or the chip capacity
\* when the argument is falsy and a chip is cached; None when neither
EffectiveLength(len, chip) ==
    IF (len = None \/ len = Some(0)) /\ chip # None
    THEN Some(chip[1].size_mb * 1024 * 1024)
    ELSE IF (len = None \/ len = Some(0))
    THEN None
    ELSE len

\* a chunk size that ignores what remains
ChunkSize_full(rem) == _buffer_size

\* line 177: the size of the next chunk
ChunkSize(rem) == Min(rem, _buffer_size)

\* an address that never advances
NextAddress_stuck(a, k) == a

\* line 183: the address after a chunk of k bytes read at a
NextAddress(a, k) == a + k

\* line 213: _read_chunk accepts a response when its byte count is the
\* requested one
Accepted(r, k) == (~r.exc) /\ r.run.n = k

\* a retry loop of two attempts
MoreAttempts_two(a) == a + 1 < 2

\* a retry loop of four attempts
MoreAttempts_four(a) == a + 1 < 4

\* line 199: another attempt follows the failed attempt number a (from 0)
MoreAttempts(a) == a + 1 < RETRIES

\* a notification sent before the chunk is appended
ProgressNote_beforeAppend(d, total) ==
    [bytes_done |-> LenBytes(SubSeq(d, 1, Len(d) - 1)), bytes_total |-> total]

\* a notification that reports the size of the last chunk only
ProgressNote_lastChunk(d, total) ==
    [bytes_done |-> d[Len(d)].n, bytes_total |-> total]

\* line 187: the notification sent after a chunk was appended to d
ProgressNote(d, total) == [bytes_done |-> LenBytes(d), bytes_total |-> total]

\* an error record that keeps the low 24 bits of the address only
IOErrorAt_masked(a) == [exc |-> "IOError", address |-> Some(a % Pow2(24))]

\* lines 180 and 194: the error logged for the chunk at address a; the
\* format 0x{address:06X} pads to six digits and never truncates
IOErrorAt(a) == [exc |-> "IOError", address |-> Some(a)]

\* lines 160-171: the guard, the length defaulting and the loop set-up
ReadCall(start, len) ==
    /\ pc = "idle"
    /\ arg_start' = start
    /\ arg_length' = len
    /\ ret' = None
    /\ IF NotConnected
       THEN /\ raised' = "ConnectionError"
            /\ logged' = <<>>
            /\ pc' = "read_ret"
            /\ UNCHANGED <<length, address, remaining>>
       ELSE /\ raised' = "none"
            /\ IF EffectiveLength(len, chip_info) = None
               THEN /\ logged' = <<[exc |-> "ValueError", address |-> None]>>
                    /\ pc' = "read_ret"
                    /\ UNCHANGED <<length, address, remaining>>
               ELSE /\ length' = EffectiveLength(len, chip_info)[1]
                    /\ address' = start
                    /\ remaining' = length'
                    /\ logged' = <<>>
                    /\ pc' = "loop"
    /\ UNCHANGED <<data, chunk_size, attempt, progress, nTx, lastTx, faults,
                   maxFails>>
    /\ UNCHANGED <<sessionVars, id_response, selftest>>

\* lines 175-178 and 189-190: the loop test; either the next chunk is set
\* up or the buffer is returned
LoopHead ==
    /\ pc = "loop"
    /\ IF remaining > 0
       THEN /\ chunk_size' = ChunkSize(remaining)
            /\ attempt' = 0
            /\ pc' = "attempt"
            /\ UNCHANGED ret
       ELSE /\ ret' = Some(data)
            /\ pc' = "read_ret"
            /\ UNCHANGED <<chunk_size, attempt>>
    /\ UNCHANGED <<arg_start, arg_length, length, address, remaining, data,
                   progress, nTx, lastTx, faults, maxFails>>
    /\ UNCHANGED <<raised, logged, sessionVars, id_response, selftest>>

\* a failed attempt ends: the next attempt starts, or after the last one
\* _read_chunk returns None and read_firmware raises and catches IOError
NextAttempt ==
    /\ attempt' = attempt + 1
    /\ IF MoreAttempts(attempt)
       THEN /\ pc' = "attempt"
            /\ UNCHANGED <<ret, logged>>
       ELSE /\ pc' = "read_ret"
            /\ ret' = None
            /\ logged' = <<IOErrorAt(address)>>

\* lines 199-217 and 179-187: one attempt of _read_chunk and, when it
\* returns the chunk, the rest of the loop body
Attempt(r) ==
    /\ pc = "attempt"
    /\ nTx' = nTx + 1
    /\ lastTx' = Some([cmd |-> FastReadCmd(address), n |-> chunk_size])
    /\ IF Accepted(r, chunk_size) /\ r.run.n > 0
       THEN /\ data' = Append(data, r.run)
            /\ address' = NextAddress(address, chunk_size)
            /\ remaining' = remaining - chunk_size
            /\ progress' = Append(progress, ProgressNote(data', length))
            /\ pc' = "loop"
            /\ UNCHANGED <<attempt, faults, maxFails, ret, logged>>
       ELSE /\ faults' = Min(faults + 1, MaxFaults)
            /\ maxFails' = Max(maxFails, attempt + 1)
            /\ UNCHANGED <<data, address, remaining, progress>>
            /\ IF r.exc
               THEN /\ pc' = "sleep"
                    /\ UNCHANGED <<attempt, ret, logged>>
               ELSE NextAttempt
    /\ UNCHANGED <<arg_start, arg_length, length, chunk_size>>
    /\ UNCHANGED <<raised, sessionVars, id_response, selftest>>

\* line 218: the delay after an attempt that raised
Sleep ==
    /\ pc = "sleep"
    /\ NextAttempt
    /\ UNCHANGED <<arg_start, arg_length, length, address, remaining, data,
                   chunk_size, progress, nTx, lastTx, faults, maxFails>>
    /\ UNCHANGED <<raised, sessionVars, id_response, selftest>>

----------------------------------------------------------------------------
(* the operation hands its outcome to the caller *)

Return ==
    /\ pc \in {"connect_ret", "close_ret", "read_ret"}
    /\ pc' = "idle"
    /\ arg_start' = 0
    /\ arg_length' = None
    /\ length' = 0
    /\ address' = 0
    /\ remaining' = 0
    /\ data' = <<>>
    /\ chunk_size' = 0
    /\ attempt' = 0
    /\ progress' = <<>>
    /\ ret' = None
    /\ raised' = "none"
    /\ logged' = <<>>
    /\ nTx' = 0
    /\ lastTx' = None
    /\ faults' = 0
    /\ maxFails' = 0
    /\ id_response' = None
    /\ selftest' = None
    /\ UNCHANGED sessionVars

----------------------------------------------------------------------------
(* The controller driven by one caller *)

DoConnect ==
    \E ctor \in BOOLEAN, opened \in BOOLEAN, r1 \in IdOutcomes, r2 \in IdOutcomes :
        Connect(ctor, opened, r1, r2)

DoClose == \E closed \in BOOLEAN : Close(closed)

DoRead == \E start \in StartAddresses, len \in Lengths : ReadCall(start, len)

DoAttempt ==
    \E r \in TransportOutcomes(FastReadCmd(address), chunk_size) : Attempt(r)

Next ==
    \/ DoConnect
    \/ DoClose
    \/ DoRead
    \/ LoopHead
    \/ DoAttempt
    \/ Sleep
    \/ Return

Spec == Init /\ [][Next]_vars

\* the caller awaits read_firmware to its end: the coroutine is resumed
\* after every step
SpecFair ==
    Spec /\ WF_vars(LoopHead) /\ WF_vars(DoAttempt) /\ WF_vars(Sleep)

----------------------------------------------------------------------------
(* Reads on a session connected to a chip of unknown identity *)

\* the state after a connect() whose self-test passed and whose
\* identification found no table entry
InitRead ==
    /\ spi = "open"
    /\ _is_connected = TRUE
    /\ chip_info = None
    /\ pc = "idle"
    /\ arg_start = 0
    /\ arg_length = None
    /\ length = 0
    /\ address = 0
    /\ remaining = 0
    /\ data = <<>>
    /\ chunk_size = 0
    /\ attempt = 0
    /\ progress = <<>>
    /\ ret = None
    /\ raised = "none"
    /\ logged = <<>>
    /\ nTx = 0
    /\ lastTx = None
    /\ faults = 0
    /\ maxFails = 0
    /\ id_response = None
    /\ selftest = None
    /\ closeCalls = 0

NextRead ==
    \/ DoRead
    \/ LoopHead
    \/ DoAttempt
    \/ Sleep
    \/ Return

SpecReadFair ==
    /\ InitRead
    /\ [][NextRead]_vars
    /\ WF_vars(LoopHead) /\ WF_vars(DoAttempt) /\ WF_vars(Sleep)

----------------------------------------------------------------------------
(* _detect_chip on its own, over a range of identity responses *)

ByteSamples == {0, 22, 23, 24, 25, 64, 239, 255}
DetectInputs ==
    {[exc |-> TRUE, bytes |-> <<>>]}
    \cup {[exc |-> FALSE, bytes |-> <<a, b>>] : a, b \in ByteSamples}
    \cup {[exc |-> FALSE, bytes |-> <<a, b, c>>] : a, b, c \in ByteSamples}

\* connect has passed the self-test (line 86) and is about to run line 90
InitDetect ==
    /\ spi = "open"
    /\ _is_connected = TRUE
    /\ chip_info = None
    /\ pc = "detect"
    /\ arg_start = 0
    /\ arg_length = None
    /\ length = 0
    /\ address = 0
    /\ remaining = 0
    /\ data = <<>>
    /\ chunk_size = 0
    /\ attempt = 0
    /\ progress = <<>>
    /\ ret = None
    /\ raised = "none"
    /\ logged = <<>>
    /\ nTx = 0
    /\ lastTx = None
    /\ faults = 0
    /\ maxFails = 0
    /\ id_response \in {Some(r) : r \in DetectInputs}
    /\ selftest = Some([exc |-> FALSE, bytes |-> <<0, 0, 0>>])
    /\ closeCalls = 0

DetectChip ==
    /\ pc = "detect"
    /\ chip_info' = _detect_chip(id_response[1])
    /\ pc' = "detected"
    /\ UNCHANGED <<spi, _is_connected, closeCalls, id_response, selftest,
                   ret, raised, logged>>
    /\ UNCHANGED readVars

SpecDetect == InitDetect /\ [][DetectChip]_vars

----------------------------------------------------------------------------
(* Vocabulary of the properties *)

\* the caller is inside read_firmware, or has just got its outcome
ReadPcs == {"loop", "attempt", "sleep", "read_ret"}

\* the session state Disconnected
Disconnected == (~_is_connected) \/ spi = "none"

\* the number of bytes the caller asked for
RequestedLength ==
    IF arg_length = None THEN chip_info[1].size_mb * 1024 * 1024
    ELSE arg_length[1]

\* the caller gave a positive length
ExplicitLength == arg_length # None /\ arg_length # Some(0)

\* number and sizes of the chunks of a read of L bytes
NumChunks(L) == (L + _buffer_size - 1) \div _buffer_size
SizeOfChunk(i, L) ==
    IF i < NumChunks(L) THEN _buffer_size
    ELSE L - _buffer_size * (NumChunks(L) - 1)

\* the image of L bytes from start: the answers to the chunk commands, in
\* address order
ExpectedImage(start, L) ==
    [i \in 1..NumChunks(L) |->
        Response(FastReadCmd(start + (i - 1) * _buffer_size), SizeOfChunk(i, L))]

ValueErrorLogged == logged = <<[exc |-> "ValueError", address |-> None]>>

----------------------------------------------------------------------------
(* C1 *)

\* C1 (as stated): a read with length = 0 on a connected session ends at
\* once as an invalid request, with no transport call, whether or not a
\* chip identity is cached.  The code takes length 0 for an omitted length
\* and reads the whole chip when an identity is cached.
C1_ZeroLengthRejected ==
    (pc \in ReadPcs /\ raised = "none" /\ arg_length = Some(0))
        => (pc = "read_ret" /\ ret = None /\ nTx = 0 /\ ValueErrorLogged)

----------------------------------------------------------------------------
(* C2 *)

\* C2: whenever read_firmware is called on a Disconnected session, the call
\* ends at once with ConnectionError raised to the caller, no value and no
\* transport call.
C2_DisconnectedReadRejected ==
    [][(pc = "idle" /\ Disconnected /\ pc' \in ReadPcs)
          => (pc' = "read_ret" /\ raised' = "ConnectionError"
              /\ ret' = None /\ nTx' = 0 /\ lastTx' = None)]_vars

\* a read refused on a session that was connected, identified and closed
C2_Witness ==
    /\ pc = "read_ret"
    /\ raised = "ConnectionError"
    /\ spi = "closed"
    /\ chip_info # None
    /\ nTx = 0

----------------------------------------------------------------------------
(* C3 *)

\* C3 (as stated): whenever read_firmware returns a byte sequence, its
\* length is the requested length.  It fails for a requested length of 0
\* on an identified chip (see C1): the whole chip is returned.
C3_SuccessHasRequestedLength ==
    (pc = "read_ret" /\ ret # None) => LenBytes(ret[1]) = RequestedLength

----------------------------------------------------------------------------
(* C4 *)

\* C4: with a positive length and a transport that never fails, the read
\* returns exactly length bytes, equal to the answers to its chunk
\* transactions in address order, chunk i being requested at
\* start_address + i * 4096 (i from 0); each appended chunk is the answer
\* to the transaction just issued.
C4_ImageIsConcatenation ==
    /\ (pc = "read_ret" /\ raised = "none" /\ ExplicitLength /\ faults = 0)
          => /\ ret = Some(ExpectedImage(arg_start, arg_length[1]))
             /\ LenBytes(ret[1]) = arg_length[1]
    /\ (pc \in {"loop", "read_ret"} /\ raised = "none" /\ ExplicitLength
           /\ faults = 0 /\ nTx > 0)
          => /\ Len(data) = nTx
             /\ data[nTx] = Response(lastTx[1].cmd, lastTx[1].n)
             /\ lastTx[1].cmd
                   = FastReadCmd(arg_start + (nTx - 1) * _buffer_size)

\* a fault-free read of two full chunks and one more byte has returned
C4_Witness ==
    /\ pc = "read_ret"
    /\ arg_length = Some(2 * _buffer_size + 1)
    /\ faults = 0
    /\ ret # None
    /\ Len(ret[1]) = 3

----------------------------------------------------------------------------
(* C5 *)

\* C5: with a transport that never fails, a read of L > 0 bytes issues
\* exactly ceil(L / 4096) chunk transactions, each of 4096 bytes except the
\* last, which has L - 4096 * (n - 1) bytes.
C5_ChunkCountAndSizes ==
    (pc \in ReadPcs /\ raised = "none" /\ ExplicitLength /\ faults = 0)
        => LET L == arg_length[1]
               n == (L + 4095) \div 4096
           IN  /\ nTx <= n
               /\ nTx > 0 =>
                     lastTx[1].n = (IF nTx < n THEN 4096 ELSE L - 4096 * (n - 1))
               /\ pc = "read_ret" => nTx = n

\* length = MAX_TRANSFER_SIZE + 1: two transactions, of 4096 and 1 bytes
C5_Witness ==
    /\ pc = "read_ret"
    /\ arg_length = Some(_buffer_size + 1)
    /\ faults = 0
    /\ ret # None
    /\ nTx = 2
    /\ ret[1][1].n = _buffer_size
    /\ lastTx[1].n = 1

----------------------------------------------------------------------------
(* C6 *)

\* C6: when no chunk fails more than its first two attempts, the read
\* succeeds and returns the full image; the failed attempts leave no bytes
\* in it.
C6_RetryThenRecover ==
    (pc = "read_ret" /\ raised = "none" /\ ExplicitLength /\ maxFails <= 2)
        => ret = Some(ExpectedImage(arg_start, arg_length[1]))

\* a multi-chunk read has succeeded after a chunk failed twice
C6_Witness ==
    /\ pc = "read_ret"
    /\ ret # None
    /\ maxFails = 2
    /\ faults >= 2
    /\ Len(ret[1]) >= 2

----------------------------------------------------------------------------
(* C7 *)

----------------------------------------------------------------------------
(* C8 *)

\* C8: within one read the notifications are strictly increasing in
\* bytes_done, and the last one has bytes_done = bytes_total exactly when
\* the read succeeds.
C8_ProgressMonotone ==
    LET n == Len(progress) IN
    /\ n >= 2 => progress[n - 1].bytes_done < progress[n].bytes_done
    /\ pc = "read_ret" =>
          /\ \A i \in 1..(n - 1) :
                 progress[i].bytes_done < progress[i + 1].bytes_done
          /\ (n >= 1 /\ progress[n].bytes_done = progress[n].bytes_total)
                 <=> (ret # None)

\* a read with a failed attempt has succeeded after several notifications
C8_Witness ==
    /\ pc = "read_ret"
    /\ ret # None
    /\ faults >= 1
    /\ Len(progress) >= 2
    /\ progress[Len(progress)].bytes_done = RequestedLength

----------------------------------------------------------------------------
(* C9 *)

W25Q32 ==
    [manufacturer_id |-> 239, device_id |-> 16407, size_mb |-> 4,
     page_size |-> 256, sector_size |-> 4096]

\* C9: for identity bytes [m, d1, d0], _detect_chip returns the geometry
\* the table holds for (m << 16) | (d1 << 8) | d0, and None when the key
\* is absent or the exchange fails; EF 40 17 gives manufacturer 0xEF,
\* device 0x4017 and 4 MiB, and 00 00 00 gives None.
C9_DetectChipLookup ==
    pc = "detected" =>
        LET r == id_response[1] IN
        IF r.exc \/ Len(r.bytes) < 3 THEN chip_info = None
        ELSE LET m == r.bytes[1]
                 d == r.bytes[2] * 256 + r.bytes[3]
                 key == m * 65536 + d
             IN  /\ key \in {15679510, 15679511, 15679512, 15679513}
                      => /\ chip_info # None
                         /\ chip_info[1].manufacturer_id = m
                         /\ chip_info[1].device_id = d
                         /\ chip_info[1].size_mb = 2 ^ (key - 15679509)
                         /\ chip_info[1].page_size = 256
                         /\ chip_info[1].sector_size = 4096
                 /\ key \notin {15679510, 15679511, 15679512, 15679513}
                      => chip_info = None
                 /\ r.bytes = <<239, 64, 23>>
                      => /\ chip_info = Some(W25Q32)
                         /\ chip_info[1].size_mb * 1024 * 1024 = 4194304
                 /\ r.bytes = <<0, 0, 0>> => chip_info = None

\* EF 40 17 has been identified
C9_Witness ==
    /\ pc = "detected"
    /\ id_response = Some([exc |-> FALSE, bytes |-> <<239, 64, 23>>])
    /\ chip_info # None

----------------------------------------------------------------------------
(* C10 *)

\* C10 (as stated): whenever connect reports failure, the session is
\* Disconnected afterwards, also when it was Connected before.  The code
\* never clears _is_connected in connect, so a failed connect on a
\* Connected session leaves it Connected.
C10_FailedConnectDisconnected ==
    (pc = "connect_ret" /\ ret = Some(FALSE)) => Disconnected

----------------------------------------------------------------------------
(* C11 *)

\* C11 (as stated): after a close() that returns, the session is
\* Disconnected and the handle released, and a close() on an
\* already-released handle changes nothing and does not call the handle
\* again.  The code keeps self.spi after closing it, so every further
\* close() calls spi.close() on the released handle.
C11_CloseIdempotent ==
    [][(pc = "idle" /\ pc' = "close_ret" /\ raised' = "none")
          => /\ Disconnected'
             /\ spi' \in {"none", "closed"}
             /\ spi = "closed" =>
                   (closeCalls' = closeCalls
                    /\ spi' = spi /\ _is_connected' = _is_connected
                    /\ chip_info' = chip_info)]_vars

----------------------------------------------------------------------------
(* C12 *)

\* the capacity of the cached chip, in bytes
CapacityBytes == chip_info[1].size_mb * 1024 * 1024

\* C12 (as stated): with a known identity, a read whose start_address +
\* length exceeds the capacity (the length being the capacity when it is
\* omitted) issues no transaction and returns no data.  The code has no
\* capacity check.
C12_BeyondCapacityRejected ==
    (pc \in ReadPcs /\ raised = "none" /\ chip_info # None
       /\ arg_length # Some(0)
       /\ arg_start + RequestedLength > CapacityBytes)
        => (nTx = 0 /\ lastTx = None /\ ret = None)

----------------------------------------------------------------------------
(* C13 *)

\* C13: with the length omitted, read_firmware works with the capacity of
\* the cached identity (size_mb * 1024 * 1024), which is the total it
\* reports and the size of what it returns; with no identity cached the
\* call fails at once, with no transport call.
C13_OmittedLengthDefaults ==
    (pc \in ReadPcs /\ raised = "none" /\ arg_length = None)
        => IF chip_info # None
           THEN /\ length = chip_info[1].size_mb * 1048576
                /\ \A i \in {Len(progress)} \ {0} :
                      progress[i].bytes_total = chip_info[1].size_mb * 1048576
                /\ (pc = "read_ret" /\ ret # None)
                      => LenBytes(ret[1]) = chip_info[1].size_mb * 1048576
           ELSE pc = "read_ret" /\ ret = None /\ nTx = 0 /\ ValueErrorLogged

\* a read with the length omitted has returned the 2 MiB of a W25Q16
C13_Witness ==
    /\ pc = "read_ret"
    /\ arg_length = None
    /\ chip_info # None
    /\ ret # None
    /\ LenBytes(ret[1]) = 2097152

----------------------------------------------------------------------------
(* C14 *)

\* C14 (as stated): no public operation lets a transport fault reach the
\* caller as an exception.  close() calls spi.close() outside any try.
C14_NoTransportExceptionLeaks ==
    pc \in {"connect_ret", "close_ret", "read_ret"}
        => raised \in {"none", "ConnectionError"}

----------------------------------------------------------------------------
(* C15 *)

\* what identification yields for the outcome r of its identity exchange
ExpectedIdentity(r) ==
    IF r.exc \/ Len(r.bytes) < 3 THEN None
    ELSE LET m == r.bytes[1]
             d == r.bytes[2] * 256 + r.bytes[3]
             key == m * 65536 + d
         IN  IF key \in {15679510, 15679511, 15679512, 15679513}
             THEN Some([manufacturer_id |-> m, device_id |-> d,
                        size_mb |-> 2 ^ (key - 15679509),
                        page_size |-> 256, sector_size |-> 4096])
             ELSE None

\* C15: when the self-test got its three bytes, connect returns True and
\* the session is Connected on the new handle, whatever identification
\* gives; the cached identity is the result of this connect's
\* identification, None for an unknown id or a failed exchange.
C15_ConnectSucceedsWithoutIdentity ==
    (pc = "connect_ret" /\ selftest # None
       /\ ~selftest[1].exc /\ Len(selftest[1].bytes) = 3)
        => /\ ret = Some(TRUE)
           /\ _is_connected
           /\ spi = "open"
           /\ id_response # None
           /\ chip_info = ExpectedIdentity(id_response[1])

\* a connect has succeeded although the identification exchange raised
C15_Witness ==
    /\ pc = "connect_ret"
    /\ ret = Some(TRUE)
    /\ selftest # None
    /\ id_response # None
    /\ id_response[1].exc
    /\ chip_info = None
    /\ _is_connected

----------------------------------------------------------------------------
(* C16 *)

\* C16 (as stated): a chunk gets at most 3 attempts, and an attempt that
\* follows a failed one starts only after the delay.  The code sleeps in
\* the except clause only, so the attempt after a response of the wrong
\* byte count starts at once.
C16_RetryAfterDelay ==
    [][/\ pc = "attempt" => attempt < 3
       /\ (pc' = "attempt" /\ attempt' = attempt + 1) => pc = "sleep"]_vars

----------------------------------------------------------------------------
(* C17 *)

\* C17: once a chunk has failed its 3 attempts the call only ends: it
\* issues no further transaction, appends and reports nothing, does not
\* move to another address, and returns None.
C17_AbortIsImmediate ==
    [][(pc \in ReadPcs /\ maxFails >= 3)
          => /\ pc \in {"sleep", "read_ret"}
             /\ pc' \in {"read_ret", "idle"}
             /\ pc' = "read_ret" =>
                   /\ nTx' = nTx /\ lastTx' = lastTx
                   /\ data' = data /\ progress' = progress
                   /\ address' = address /\ remaining' = remaining
                   /\ ret' = None]_vars

\* a read has aborted on its second chunk with more chunks left to read
C17_Witness ==
    /\ pc = "read_ret"
    /\ maxFails = RETRIES
    /\ spi = "open"
    /\ Len(data) = 1
    /\ remaining > chunk_size
    /\ nTx = 4

----------------------------------------------------------------------------
(* C18 *)

\* C18: the reporter is notified exactly once for each chunk appended,
\* with the byte count that includes the chunk; a failed attempt or chunk
\* brings no notification, and none is sent once the call has returned.
C18_OneNotificationPerChunk ==
    [][/\ Len(data') = Len(data) + 1
            => /\ Len(progress') = Len(progress) + 1
               /\ SubSeq(progress', 1, Len(progress)) = progress
               /\ progress'[Len(progress')].bytes_done = LenBytes(data')
               /\ progress'[Len(progress')].bytes_total = length
       /\ (Len(data') # Len(data) + 1 /\ pc' # "idle")
            => progress' = progress
       /\ pc' \notin ReadPcs => progress' = <<>>
       /\ Len(progress') = Len(data')]_vars

\* one chunk was reported and the next one failed without a notification
C18_Witness ==
    /\ pc = "read_ret"
    /\ maxFails = RETRIES
    /\ Len(data) = 1
    /\ Len(progress) = 1
    /\ progress[1].bytes_done = _buffer_size
    /\ nTx = 4

----------------------------------------------------------------------------
(* C19 *)

\* C19: a read of length > 0 on a Connected session always comes to its
\* end, as exactly one of a returned image or a logged abort, after at
\* most 3 * ceil(length / 4096) chunk transactions, each of them requested
\* right after the chunks already completed.
C19_ReadTerminates ==
    /\ (pc \in {"loop", "attempt", "sleep"}) ~> (pc = "read_ret")
    /\ []((pc \in ReadPcs /\ raised = "none" /\ arg_length # Some(0)
              /\ (arg_length # None \/ chip_info # None))
            => /\ nTx <= 3 * ((RequestedLength + 4095) \div 4096)
               /\ pc = "read_ret"
                    => ((ret # None) # (\E a \in {address} :
                           logged = <<[exc |-> "IOError", address |-> Some(a)]>>)))
    /\ [][nTx' = nTx + 1
            => lastTx'[1].cmd = FastReadCmd(arg_start + LenBytes(data))]_vars

\* a one-byte read has aborted after the most transactions it may issue
C19_Witness ==
    /\ pc = "read_ret"
    /\ arg_length = Some(1)
    /\ spi = "open"
    /\ nTx = 3
    /\ ret = None

----------------------------------------------------------------------------
(* C20 *)

\* C20: every chunk command is [0x0B, (address >> 16) & 0xFF,
\* (address >> 8) & 0xFF, address & 0xFF, 0], so the address on the bus is
\* address mod 2^24: the address itself below 2^24, a wrapped low address
\* from 2^24 on; a read that runs past 2^24 still returns its image as a
\* success, with the wrapped chunks in it and nothing logged.
C20_BusAddressWraps ==
    [][/\ nTx' = nTx + 1
            => LET c == lastTx'[1].cmd
                   bus == c[2] * 65536 + c[3] * 256 + c[4]
               IN  /\ c = <<11, (address \div 65536) % 256,
                               (address \div 256) % 256, address % 256, 0>>
                   /\ bus = address % 16777216
                   /\ address < 16777216 => bus = address
                   /\ Len(data') = Len(data) + 1
                        => data'[Len(data')].addr = bus
       /\ (pc = "loop" /\ remaining = 0
             /\ arg_start + LenBytes(data) > 16777216)
            => /\ pc' = "read_ret"
               /\ ret' = Some(data)
               /\ raised' = "none"
               /\ logged' = <<>>
               /\ \E i \in 1..Len(data) : data[i].addr < arg_start]_vars

\* a read from 2^24 - 4096 has succeeded with its second chunk read at
\* bus address 0
C20_Witness ==
    /\ pc = "read_ret"
    /\ ret # None
    /\ arg_start = 16777216 - 4096
    /\ Len(ret[1]) >= 2
    /\ ret[1][1].addr = arg_start
    /\ ret[1][2].addr = 0
    /\ logged = <<>>

====
